---- MODULE Spec2Model ----
(***************************************************************************)
(* A model of the manifest-to-gallery programs tutorial.py and             *)
(* advancedtutorial.py: the per-line manifest parser of process_file, the  *)
(* display loops with their per-mirror fallback, and the Streamlit rerun   *)
(* loop of main with its session-state fingerprint cache.                  *)
(*                                                                         *)
(* A Python str is a sequence of one-character strings.  A URL template is *)
(* such a sequence in which the replacement field "{}" is one element.     *)
(***************************************************************************)
EXTENDS Integers, Sequences, FiniteSets, TLC

VARIABLES
    prog,              \* which program runs: "tutorial" or "advanced"
    session_state,     \* st.session_state: a function on a subset of SessionKeys
    pc,                \* position of the script: "idle", "parse", "display"
    file_content,      \* main: the text read from the upload in this rerun
    selected_base_urls,\* main: the selected templates, in selection order
    is_image,          \* main: content_type == "Images"
    config,            \* main: what the uploaded .py file of this rerun is
    lines,             \* process_file: file_content.splitlines()
    li,                \* process_file: index of the next line of the for loop
    data,              \* process_file: the dict, as a sequence of sections in insertion order
    current_section,   \* process_file: None or a section name
    sorted_sections,   \* display_*: sorted(data.keys())
    si,                \* display_*: index of the section being displayed
    idx,               \* display_*: enumerate's index of the entry being displayed
    bi,                \* display_*: index of the next base_url of the inner for loop
    page,              \* the elements written to the page in this rerun, in order
    calls,             \* the fetches attempted in this rerun, in order
    runs,              \* how many times process_file was entered in this rerun
    resubmitted,       \* this rerun's upload had the fingerprint already stored
    previous           \* the text stored before this rerun's upload, None if none

vars == <<prog, session_state, pc, file_content, selected_base_urls, is_image,
          config, lines, li, data, current_section, sorted_sections, si, idx,
          bi, page, calls, runs, resubmitted, previous>>

----------------------------------------------------------------------------
(* Bounds of the model.                                                    *)

MaxLineLen == 4    \* longest line of the exhaustive per-line specification
MaxLines == 5      \* most lines of a manifest of the parser specification
MaxMirrors == 3    \* most templates selected at once

----------------------------------------------------------------------------
(* Python str operations, as the source uses them.                         *)

NL == "\n"
Chars == {"a", "b", " ", "#"}

\* The code points that order the characters under Python's str comparison.
Ord(c) ==
    CASE c = " " -> 32
      [] c = "#" -> 35
      [] c = "+" -> 43
      [] c = "_" -> 95
      [] c = "a" -> 97
      [] c = "b" -> 98
      [] c = "p" -> 112
      [] c = "q" -> 113
      [] c = "{}" -> 123
      [] OTHER -> 0

IsSpace(c) == c = " " \/ c = NL

RECURSIVE LStrip(_)
LStrip(s) ==
    IF s = <<>> THEN <<>>
    ELSE IF IsSpace(Head(s)) THEN LStrip(Tail(s)) ELSE s

RECURSIVE RStrip(_)
RStrip(s) ==
    IF s = <<>> THEN <<>>
    ELSE IF IsSpace(s[Len(s)]) THEN RStrip(SubSeq(s, 1, Len(s) - 1)) ELSE s

\* str.strip()
Strip(s) == RStrip(LStrip(s))

\* str.startswith(c)
StartsWith(s, c) == Len(s) > 0 /\ s[1] = c

\* str.endswith(c)
EndsWith(s, c) == Len(s) > 0 /\ s[Len(s)] = c

\* c in s
Contains(s, c) == \E i \in 1..Len(s) : s[i] = c

\* str.split(c): the pieces between the occurrences of c, empty ones kept.
RECURSIVE SplitOn(_, _)
SplitOn(s, c) ==
    IF ~Contains(s, c) THEN <<s>>
    ELSE LET k == CHOOSE i \in 1..Len(s) :
                      s[i] = c /\ \A j \in 1..(i - 1) : s[j] # c
         IN  <<SubSeq(s, 1, k - 1)>> \o SplitOn(SubSeq(s, k + 1, Len(s)), c)

\* str.split(): the maximal runs of non-whitespace characters.
RECURSIVE SplitWords(_)
SplitWords(s) ==
    LET t == LStrip(s)
    IN  IF t = <<>> THEN <<>>
        ELSE LET ends == {i \in 1..Len(t) : IsSpace(t[i])}
                 k == IF ends = {} THEN Len(t) + 1
                      ELSE CHOOSE i \in ends : \A j \in ends : i <= j
             IN  <<SubSeq(t, 1, k - 1)>> \o SplitWords(SubSeq(t, k, Len(t)))

\* sep.join(parts)
RECURSIVE Join(_, _)
Join(parts, sep) ==
    IF parts = <<>> THEN <<>>
    ELSE IF Len(parts) = 1 THEN parts[1]
    ELSE parts[1] \o <<sep>> \o Join(Tail(parts), sep)

\* A replace that leaves the spaces where they are.
ReplaceSpacesKept(s) == s

\* str.replace(' ', '+')
ReplaceSpaces(s) == [i \in 1..Len(s) |-> IF s[i] = " " THEN "+" ELSE s[i]]

\* [x for x in parts if keep(x)] for the comprehension of tutorial.py
RECURSIVE DropHashWords(_)
DropHashWords(words) ==
    IF words = <<>> THEN <<>>
    ELSE IF EndsWith(Head(words), "#") THEN DropHashWords(Tail(words))
    ELSE <<Head(words)>> \o DropHashWords(Tail(words))

\* str.splitlines() for texts whose only line boundary is "\n".
RECURSIVE SplitLines(_)
SplitLines(text) ==
    IF text = <<>> THEN <<>>
    ELSE IF ~Contains(text, NL) THEN <<text>>
    ELSE LET k == CHOOSE i \in 1..Len(text) :
                      text[i] = NL /\ \A j \in 1..(i - 1) : text[j] # NL
         IN  <<SubSeq(text, 1, k - 1)>> \o SplitLines(SubSeq(text, k + 1, Len(text)))

\* str.format(arg) raises IndexError when the template has a second "{}".
FormatRaises(template) == Cardinality({i \in 1..Len(template) : template[i] = "{}"}) > 1

\* str.format(arg) when it returns: each "{}" replaced by arg.
RECURSIVE Format(_, _)
Format(template, arg) ==
    IF template = <<>> THEN <<>>
    ELSE (IF Head(template) = "{}" THEN arg ELSE <<Head(template)>>)
         \o Format(Tail(template), arg)

\* a < b for str: lexicographic by code point.
RECURSIVE StrLess(_, _)
StrLess(a, b) ==
    IF b = <<>> THEN FALSE
    ELSE IF a = <<>> THEN TRUE
    ELSE IF Head(a) = Head(b) THEN StrLess(Tail(a), Tail(b))
    ELSE Ord(Head(a)) < Ord(Head(b))

\* sorted(keys)
RECURSIVE Sorted(_)
Sorted(keys) ==
    IF keys = {} THEN <<>>
    ELSE LET m == CHOOSE k \in keys : \A o \in keys \ {k} : StrLess(k, o)
         IN  <<m>> \o Sorted(keys \ {m})

----------------------------------------------------------------------------
(* Inputs.                                                                 *)

None == <<"None">>       \* Python's None where a str may stand
NoPage == <<>>

\* The templates a configuration unit may map its labels to.  The last has
\* two replacement fields, so formatting it with one argument raises.
GoodTemplates == {<<"p", "{}">>, <<"{}", "q">>}
BadTemplate == <<"{}", "{}">>
Templates == GoodTemplates \cup {BadTemplate}

\* All str of at most n characters.
Strings(n) == UNION {[1..k -> Chars] : k \in 0..n}

\* The lines the manifests of the parser specification are made of: two
\* section headers, two entries and a blank line.
ParseLines == {<<"#", "a">>, <<"#", "b">>, <<"a">>, <<"b">>, <<" ">>}

\* The texts of at most n lines drawn from L.
ManifestsOver(L, n) == {Join(ls, NL) : ls \in UNION {[1..k -> L] : k \in 0..n}}

\* A header, of section b or of the empty name, followed by one arbitrary
\* line, and one arbitrary line alone.
LineManifests ==
    {Join(<<h, l>>, NL) : h \in {<<"#", "b">>, <<"#">>}, l \in Strings(MaxLineLen)}
        \cup Strings(MaxLineLen)

----------------------------------------------------------------------------
(* process_file: the dict of sections and the per-line rules.              *)

\* current_section not in data
HasSection(d, name) == \E i \in 1..Len(d) : d[i].name = name

\* data[name]
Entries(d, name) == d[CHOOSE i \in 1..Len(d) : d[i].name = name].entries

\* data.keys()
Keys(d) == {d[i].name : i \in 1..Len(d)}

\* line[1:].strip()
HeaderName(line) == Strip(Tail(line))

\* A parser that starts the section afresh at each of its headers.
OpenSectionReset(d, name) ==
    IF HasSection(d, name)
    THEN [i \in 1..Len(d) |-> IF d[i].name = name THEN [d[i] EXCEPT !.entries = <<>>] ELSE d[i]]
    ELSE Append(d, [name |-> name, entries |-> <<>>])

\* if current_section not in data: data[current_section] = []
OpenSection(d, name) ==
    IF HasSection(d, name) THEN d
    ELSE Append(d, [name |-> name, entries |-> <<>>])

\* data[current_section].append(entry)
AppendEntry(d, name, entry) ==
    [i \in 1..Len(d) |->
        IF d[i].name = name THEN [d[i] EXCEPT !.entries = Append(@, entry)]
        ELSE d[i]]

\* A test that takes the empty section name for no section.
NoSectionFalsy(section) == section = None \/ section = <<>>

\* current_section is None
NoSection(section) == section = None

\* not line.strip()
IsBlank(line) == Strip(line) = <<>>

\* A parser that looks for '#' after the leading spaces.
IsHeaderLenient(line) == StartsWith(LStrip(line), "#")

\* line.startswith('#')
IsHeader(line) == StartsWith(line, "#")

\* advancedtutorial.py: the caption of an entry line.
EntryName(line) ==
    IF Contains(line, "#") THEN Strip(SplitOn(line, "#")[2])
    ELSE Strip(line)

\* advancedtutorial.py: the tuple appended for an entry line.
AdvancedEntry(line) == <<EntryName(line), Strip(line)>>

\* A parser that keeps the words that end in '#'.
CleanedLineKeepAll(line) == Join(SplitWords(line), " ")

\* tutorial.py: ' '.join([word for word in line.split() if not word.endswith('#')])
CleanedLine(line) == Join(DropHashWords(SplitWords(line)), " ")

\* tutorial.py: selected_base_url.format(cleaned_line.replace(' ', '+'))
SearchUrl(template, line) == Format(template, ReplaceSpaces(CleanedLine(line)))

\* tutorial.py: the tuple appended for an entry line.
TutorialEntry(template, line) == <<CleanedLine(line), SearchUrl(template, line)>>

\* One element of the page: the st.* call that wrote it, the section and
\* entry index it is for, the URL it shows and the template that gave it.
Element(kind, section, i, url, base) ==
    [kind |-> kind, section |-> section, idx |-> i, url |-> url, base |-> base]

\* st.warning("Content without a section will be ignored. ...")
Warning == Element("warning", <<>>, 0, <<>>, <<>>)

\* st.error(f"Failed to import base URLs from the uploaded file: {e}")
ImportError == Element("import_error", <<>>, 0, <<>>, <<>>)

parseVars == <<prog, session_state, file_content, selected_base_urls, is_image,
               config, lines, sorted_sections, si, idx, bi, calls, runs,
               resubmitted, previous>>

\* The position of the for loop over lines.
InLoop == pc = "parse" /\ li <= Len(lines)

\* if not line.strip(): continue
ParseBlank ==
    /\ InLoop
    /\ IsBlank(lines[li])
    /\ li' = li + 1
    /\ UNCHANGED <<pc, data, current_section, page>>
    /\ UNCHANGED parseVars

\* if line.startswith('#'): the section is started or resumed.
ParseHeader ==
    /\ InLoop
    /\ ~IsBlank(lines[li])
    /\ IsHeader(lines[li])
    /\ current_section' = HeaderName(lines[li])
    /\ data' = OpenSection(data, HeaderName(lines[li]))
    /\ li' = li + 1
    /\ UNCHANGED <<pc, page>>
    /\ UNCHANGED parseVars

\* A parser that files a line with no section above it under the empty name.
ParseOrphanKept ==
    /\ InLoop
    /\ ~IsBlank(lines[li])
    /\ ~IsHeader(lines[li])
    /\ NoSection(current_section)
    /\ data' = AppendEntry(OpenSection(data, <<>>), <<>>, <<Strip(lines[li]), Strip(lines[li])>>)
    /\ page' = Append(page, Warning)
    /\ li' = li + 1
    /\ UNCHANGED <<pc, current_section>>
    /\ UNCHANGED parseVars

\* if current_section is None: st.warning(...); continue
ParseOrphan ==
    /\ InLoop
    /\ ~IsBlank(lines[li])
    /\ ~IsHeader(lines[li])
    /\ NoSection(current_section)
    /\ page' = Append(page, Warning)
    /\ li' = li + 1
    /\ UNCHANGED <<pc, data, current_section>>
    /\ UNCHANGED parseVars

\* The entry tuple this program builds for the line.
EntryOf(line) ==
    IF prog = "advanced" THEN AdvancedEntry(line)
    ELSE TutorialEntry(selected_base_urls[1], line)

\* tutorial.py formats the template while parsing; advancedtutorial.py does not.
EntryRaises == prog = "tutorial" /\ FormatRaises(selected_base_urls[1])

\* data[current_section].append(...)
ParseEntry ==
    /\ InLoop
    /\ ~IsBlank(lines[li])
    /\ ~IsHeader(lines[li])
    /\ ~NoSection(current_section)
    /\ ~EntryRaises
    /\ data' = AppendEntry(data, current_section, EntryOf(lines[li]))
    /\ li' = li + 1
    /\ UNCHANGED <<pc, current_section, page>>
    /\ UNCHANGED parseVars

\* tutorial.py: format raises inside process_file; the except clause of main
\* catches it and reports it with st.error.
ParseEntryRaises ==
    /\ InLoop
    /\ ~IsBlank(lines[li])
    /\ ~IsHeader(lines[li])
    /\ ~NoSection(current_section)
    /\ EntryRaises
    /\ page' = Append(page, ImportError)
    /\ pc' = "idle"
    /\ UNCHANGED <<li, data, current_section>>
    /\ UNCHANGED parseVars

\* An entry to process_file that starts from the dict of the call before.
EnterProcessFileKeepsData(content) ==
    /\ lines' = SplitLines(content)
    /\ data' = data
    /\ current_section' = None
    /\ li' = 1
    /\ pc' = "parse"

\* The state on entry to process_file(content, urls, image, ...).
EnterProcessFile(content) ==
    /\ lines' = SplitLines(content)
    /\ data' = <<>>
    /\ current_section' = None
    /\ li' = 1
    /\ pc' = "parse"

\* process_file called on a text of the pool, by either program, in either mode.
InitParse(pool) ==
    /\ prog \in {"tutorial", "advanced"}
    /\ file_content \in pool
    /\ is_image \in BOOLEAN
    /\ selected_base_urls \in {<<t>> : t \in Templates}
    /\ prog = "advanced" => selected_base_urls = <<(<<"p", "{}">>)>>
    /\ config = "full"
    /\ session_state = <<>>
    /\ lines = SplitLines(file_content)
    /\ data = <<>>
    /\ current_section = None
    /\ li = 1
    /\ pc = "parse"
    /\ sorted_sections = <<>>
    /\ si = 0
    /\ idx = 0
    /\ bi = 0
    /\ page = NoPage
    /\ calls = <<>>
    /\ runs = 1
    /\ resubmitted = FALSE
    /\ previous = None

NextParse == ParseBlank \/ ParseHeader \/ ParseOrphan \/ ParseEntry \/ ParseEntryRaises

\* The parser over every manifest of at most MaxLines lines of ParseLines.
SpecParse == InitParse(ManifestsOver(ParseLines, MaxLines)) /\ [][NextParse]_vars

\* The parser over a header followed by each line of at most MaxLineLen characters.
SpecLine == InitParse(LineManifests) /\ [][NextParse]_vars

----------------------------------------------------------------------------
(* display_images and display_videos.                                      *)

dispVars == <<prog, session_state, file_content, selected_base_urls, is_image,
              config, lines, li, data, current_section, sorted_sections, runs,
              resubmitted, previous>>

\* A display that goes through the sections in the order of the dict.
CallDisplayUnsorted ==
    /\ pc = "parse"
    /\ li > Len(lines)
    /\ sorted_sections' = [n \in 1..Len(data) |-> data[n].name]
    /\ si' = 1
    /\ idx' = 0
    /\ bi' = 1
    /\ pc' = "section"
    /\ UNCHANGED <<prog, session_state, file_content, selected_base_urls,
                   is_image, config, lines, li, data, current_section, page,
                   calls, runs, resubmitted, previous>>

\* process_file leaves its for loop and calls display_images or display_videos.
CallDisplay ==
    /\ pc = "parse"
    /\ li > Len(lines)
    /\ sorted_sections' = Sorted(Keys(data))
    /\ si' = 1
    /\ idx' = 0
    /\ bi' = 1
    /\ pc' = "section"
    /\ UNCHANGED <<prog, session_state, file_content, selected_base_urls,
                   is_image, config, lines, li, data, current_section, page,
                   calls, runs, resubmitted, previous>>

\* The section and the entry the display loops are at.
Section == sorted_sections[si]
Entry == Entries(data, Section)[idx + 1]

\* for section in sorted_sections: st.write(f"### Section: ..."), st.columns(4)
SectionHeader ==
    /\ pc = "section"
    /\ si <= Len(sorted_sections)
    /\ page' = Append(page, Element("header", Section, Len(Entries(data, Section)), <<>>, <<>>))
    /\ idx' = 0
    /\ bi' = 1
    /\ pc' = "entry"
    /\ UNCHANGED <<si, calls>>
    /\ UNCHANGED dispVars

\* The for loop over the sections ends: display_* and process_file return,
\* and the rerun is over.
DisplayReturn ==
    /\ pc = "section"
    /\ si > Len(sorted_sections)
    /\ pc' = "idle"
    /\ UNCHANGED <<si, idx, bi, page, calls>>
    /\ UNCHANGED dispVars

\* The for loop over the entries of the section ends.
SectionDone ==
    /\ pc = "entry"
    /\ idx >= Len(Entries(data, Section))
    /\ si' = si + 1
    /\ pc' = "section"
    /\ UNCHANGED <<idx, bi, page, calls>>
    /\ UNCHANGED dispVars

\* At an entry of the section, inside the body of the enumerate loop.
AtEntry == pc = "entry" /\ idx < Len(Entries(data, Section))

\* At a base_url of the inner for loop of advancedtutorial.py.
AtMirror == AtEntry /\ prog = "advanced" /\ bi <= Len(selected_base_urls)

\* The record of one call fetch_image_with_fallback(url, base_url), or of one
\* requests.get(url) of tutorial.py, and whether it gave an image.
Call(section, i, url, base, ok) ==
    [section |-> section, idx |-> i, url |-> url, base |-> base, ok |-> ok]

\* What a successful image attempt writes: st.image(image, caption), st.markdown(link to new_url).
RenderImage(section, i, url, base) ==
    <<Element("image", section, i, url, base), Element("link", section, i, url, base)>>

\* A loop with no break: the image is written and the next base_url is tried.
FetchPayloadNoBreak ==
    /\ AtMirror
    /\ is_image
    /\ calls' = Append(calls, Call(Section, idx, Entry[2], selected_base_urls[bi], TRUE))
    /\ page' = page \o RenderImage(Section, idx, Entry[2], selected_base_urls[bi])
    /\ bi' = bi + 1
    /\ UNCHANGED <<pc, si, idx>>
    /\ UNCHANGED dispVars

\* A loop that starts the next candidate at the base_url that gave the image.
FetchPayloadSticky ==
    /\ AtMirror
    /\ is_image
    /\ calls' = Append(calls, Call(Section, idx, Entry[2], selected_base_urls[bi], TRUE))
    /\ page' = page \o RenderImage(Section, idx, Entry[2], selected_base_urls[bi])
    /\ idx' = idx + 1
    /\ bi' = bi
    /\ UNCHANGED <<pc, si>>
    /\ UNCHANGED dispVars

\* if image: st.image, st.markdown, break
FetchPayload ==
    /\ AtMirror
    /\ is_image
    /\ calls' = Append(calls, Call(Section, idx, Entry[2], selected_base_urls[bi], TRUE))
    /\ page' = page \o RenderImage(Section, idx, Entry[2], selected_base_urls[bi])
    /\ idx' = idx + 1
    /\ bi' = 1
    /\ UNCHANGED <<pc, si>>
    /\ UNCHANGED dispVars

\* fetch_image_with_fallback returned no image: the loop goes to the next base_url.
FetchNothing ==
    /\ AtMirror
    /\ is_image
    /\ calls' = Append(calls, Call(Section, idx, Entry[2], selected_base_urls[bi], FALSE))
    /\ bi' = bi + 1
    /\ UNCHANGED <<pc, si, idx, page>>
    /\ UNCHANGED dispVars

\* An except clause that reports the failure with st.error.
FetchRaisesShown ==
    /\ AtMirror
    /\ is_image
    /\ calls' = Append(calls, Call(Section, idx, Entry[2], selected_base_urls[bi], FALSE))
    /\ page' = Append(page, Element("load_error", Section, idx, Entry[2], selected_base_urls[bi]))
    /\ bi' = bi + 1
    /\ UNCHANGED <<pc, si, idx>>
    /\ UNCHANGED dispVars

\* fetch_image_with_fallback raised: except Exception: continue
FetchRaises ==
    /\ AtMirror
    /\ is_image
    /\ calls' = Append(calls, Call(Section, idx, Entry[2], selected_base_urls[bi], FALSE))
    /\ bi' = bi + 1
    /\ UNCHANGED <<pc, si, idx, page>>
    /\ UNCHANGED dispVars

\* video_url = base_url.format(url.replace(' ', '+'))
VideoUrl(base, url) == Format(base, ReplaceSpaces(url))

\* What display_videos writes for an entry: st.write(caption), st.markdown(link).
RenderVideo(section, i, url, base) ==
    <<Element("label", section, i, <<>>, <<>>), Element("link", section, i, url, base)>>

\* A loop with no break: a link is written for every base_url.
VideoLinkNoBreak ==
    /\ AtMirror
    /\ ~is_image
    /\ ~FormatRaises(selected_base_urls[bi])
    /\ page' = page \o RenderVideo(Section, idx,
                   VideoUrl(selected_base_urls[bi], Entry[2]), selected_base_urls[bi])
    /\ bi' = bi + 1
    /\ UNCHANGED <<pc, si, idx, calls>>
    /\ UNCHANGED dispVars

\* display_videos of advancedtutorial.py: the link is written, break
VideoLink ==
    /\ AtMirror
    /\ ~is_image
    /\ ~FormatRaises(selected_base_urls[bi])
    /\ page' = page \o RenderVideo(Section, idx,
                   VideoUrl(selected_base_urls[bi], Entry[2]), selected_base_urls[bi])
    /\ idx' = idx + 1
    /\ bi' = 1
    /\ UNCHANGED <<pc, si, calls>>
    /\ UNCHANGED dispVars

\* display_videos of advancedtutorial.py: format raised, except Exception: continue
VideoFormatRaises ==
    /\ AtMirror
    /\ ~is_image
    /\ FormatRaises(selected_base_urls[bi])
    /\ bi' = bi + 1
    /\ UNCHANGED <<pc, si, idx, page, calls>>
    /\ UNCHANGED dispVars

\* A loop that gives up the whole display when a candidate has no image.
MirrorsExhaustedStops ==
    /\ AtEntry
    /\ prog = "advanced"
    /\ bi > Len(selected_base_urls)
    /\ pc' = "idle"
    /\ UNCHANGED <<si, idx, bi, page, calls>>
    /\ UNCHANGED dispVars

\* The inner for loop ran out of base_urls without a break.
MirrorsExhausted ==
    /\ AtEntry
    /\ prog = "advanced"
    /\ bi > Len(selected_base_urls)
    /\ idx' = idx + 1
    /\ bi' = 1
    /\ UNCHANGED <<pc, si, page, calls>>
    /\ UNCHANGED dispVars

\* display_images of tutorial.py: requests.get and Image.open succeed.
TutorialImage ==
    /\ AtEntry
    /\ prog = "tutorial"
    /\ is_image
    /\ calls' = Append(calls, Call(Section, idx, Entry[2], <<>>, TRUE))
    /\ page' = page \o RenderImage(Section, idx, Entry[2], <<>>)
    /\ idx' = idx + 1
    /\ UNCHANGED <<pc, si, bi>>
    /\ UNCHANGED dispVars

\* display_images of tutorial.py: st.error(f"Failed to load image from {url}: {e}")
TutorialImageFails ==
    /\ AtEntry
    /\ prog = "tutorial"
    /\ is_image
    /\ calls' = Append(calls, Call(Section, idx, Entry[2], <<>>, FALSE))
    /\ page' = Append(page, Element("load_error", Section, idx, Entry[2], <<>>))
    /\ idx' = idx + 1
    /\ UNCHANGED <<pc, si, bi>>
    /\ UNCHANGED dispVars

\* display_videos of tutorial.py: the stored search_url is linked.
TutorialVideo ==
    /\ AtEntry
    /\ prog = "tutorial"
    /\ ~is_image
    /\ page' = page \o RenderVideo(Section, idx, Entry[2], <<>>)
    /\ idx' = idx + 1
    /\ UNCHANGED <<pc, si, bi, calls>>
    /\ UNCHANGED dispVars

----------------------------------------------------------------------------
(* main: one rerun of the script per interaction.                          *)

\* The manifests uploaded in the session specification: an orphan line, a
\* blank line and two sections out of alphabetical order, the first resumed
\* after the second; one section of two entries; a section resumed with no
\* entry in the other; the empty text.
PipelineManifests ==
    { Join(<< <<"a">>, <<"#", "b">>, <<"a">>, <<" ">>, <<"#", "a">>, <<"b">>,
              <<"#", "b">>, <<"b">> >>, NL),
      Join(<< <<"#", "b">>, <<"a">>, <<"b", " ", "a">> >>, NL),
      Join(<< <<"#", "a">>, <<"a">>, <<"#", "b">>, <<"#", "a">>, <<"b">> >>, NL),
      <<>> }

\* What the uploaded .py file can be: none uploaded; one whose import raises;
\* one with both mappings but no fetch_image_with_fallback; one with all three.
Configs == {"absent", "broken", "no_fetch", "full"}

\* import_base_urls_from_file raises.
ImportRaises(program, cfg) ==
    cfg = "broken" \/ (program = "advanced" /\ cfg = "no_fetch")

\* The sequences of at most n distinct elements of S.
Distinct(S, n) ==
    {q \in UNION {[1..k -> S] : k \in 0..n} :
        \A i, j \in 1..Len(q) : i # j => q[i] # q[j]}

\* st.selectbox gives tutorial.py one template; st.multiselect gives
\* advancedtutorial.py the chosen templates in the order chosen.
Selections(program) ==
    IF program = "tutorial" THEN {<<t>> : t \in Templates}
    ELSE Distinct(Templates, MaxMirrors)

\* compute_file_hash: SHA-256 of the UTF-8 bytes, taken to be free of collisions.
compute_file_hash(content) == <<"sha256">> \o content

\* "last_file_hash" not in st.session_state or st.session_state.last_file_hash != file_hash
HashChanged(ss, file_hash) ==
    "last_file_hash" \notin DOMAIN ss \/ ss["last_file_hash"] # file_hash

\* A change check that stores the new hash and keeps the text it has.
RememberHashOnly(ss, content) ==
    IF HashChanged(ss, compute_file_hash(content))
    THEN ("last_file_hash" :> compute_file_hash(content))
            @@ ("file_content" :> (IF "file_content" \in DOMAIN ss
                                   THEN ss["file_content"] ELSE content))
    ELSE ss

\* st.session_state after the change check of main.
Remember(ss, content) ==
    IF HashChanged(ss, compute_file_hash(content))
    THEN ("last_file_hash" :> compute_file_hash(content)) @@ ("file_content" :> content)
    ELSE ss

\* The locals of process_file and display_* of a rerun that calls neither.
NotProcessed ==
    /\ lines' = <<>>
    /\ li' = 1
    /\ data' = <<>>
    /\ current_section' = None
    /\ sorted_sections' = <<>>
    /\ si' = 0
    /\ idx' = 0
    /\ bi' = 0
    /\ calls' = <<>>
    /\ runs' = 0
    /\ resubmitted' = FALSE
    /\ previous' = None
    /\ pc' = "idle"

\* if uploaded_py_file is not None: fails, nothing is done.
RerunNoConfig ==
    /\ pc = "idle"
    /\ config' = "absent"
    /\ page' = NoPage
    /\ file_content' = None
    /\ selected_base_urls' = <<>>
    /\ is_image' = TRUE
    /\ NotProcessed
    /\ UNCHANGED <<prog, session_state>>

\* The import raises: st.error(...), then the temporary file is removed.
RerunImportFails ==
    /\ pc = "idle"
    /\ \E cfg \in Configs \ {"absent"} :
          /\ ImportRaises(prog, cfg)
          /\ config' = cfg
    /\ page' = <<ImportError>>
    /\ file_content' = None
    /\ selected_base_urls' = <<>>
    /\ is_image' = TRUE
    /\ NotProcessed
    /\ UNCHANGED <<prog, session_state>>

\* if uploaded_txt_file is not None: fails, nothing is processed.
RerunNoText ==
    /\ pc = "idle"
    /\ \E cfg \in Configs \ {"absent"} :
          /\ ~ImportRaises(prog, cfg)
          /\ config' = cfg
    /\ is_image' \in BOOLEAN
    /\ selected_base_urls' \in Selections(prog)
    /\ page' = NoPage
    /\ file_content' = None
    /\ NotProcessed
    /\ UNCHANGED <<prog, session_state>>

\* uploaded_txt_file.read().decode('utf-8') raises on a file that is not
\* UTF-8: the except clause of main reports it with st.error.
RerunDecodeFails ==
    /\ pc = "idle"
    /\ \E cfg \in Configs \ {"absent"} :
          /\ ~ImportRaises(prog, cfg)
          /\ config' = cfg
    /\ is_image' \in BOOLEAN
    /\ selected_base_urls' \in Selections(prog)
    /\ page' = <<ImportError>>
    /\ file_content' = None
    /\ NotProcessed
    /\ UNCHANGED <<prog, session_state>>

\* A text file is uploaded: it is hashed, the session state is brought up to
\* date, and process_file is called on st.session_state.file_content.
RerunProcess(pool) ==
    /\ pc = "idle"
    /\ \E cfg \in Configs \ {"absent"} :
          /\ ~ImportRaises(prog, cfg)
          /\ config' = cfg
    /\ is_image' \in BOOLEAN
    /\ selected_base_urls' \in Selections(prog)
    /\ file_content' \in pool
    /\ resubmitted' = ~HashChanged(session_state, compute_file_hash(file_content'))
    /\ previous' = (IF "file_content" \in DOMAIN session_state
                    THEN session_state["file_content"] ELSE None)
    /\ session_state' = Remember(session_state, file_content')
    /\ page' = NoPage
    /\ calls' = <<>>
    /\ sorted_sections' = <<>>
    /\ si' = 0
    /\ idx' = 0
    /\ bi' = 0
    /\ IF "file_content" \in DOMAIN session_state'
       THEN /\ runs' = 1
            /\ EnterProcessFile(session_state'["file_content"])
       ELSE /\ runs' = 0
            /\ UNCHANGED <<lines, data, current_section, li, pc>>
    /\ UNCHANGED prog

Upload == RerunProcess(PipelineManifests)

Init ==
    /\ prog \in {"tutorial", "advanced"}
    /\ session_state = <<>>
    /\ pc = "idle"
    /\ config = "absent"
    /\ file_content = None
    /\ selected_base_urls = <<>>
    /\ is_image = TRUE
    /\ lines = <<>>
    /\ li = 1
    /\ data = <<>>
    /\ current_section = None
    /\ sorted_sections = <<>>
    /\ si = 0
    /\ idx = 0
    /\ bi = 0
    /\ page = NoPage
    /\ calls = <<>>
    /\ runs = 0
    /\ resubmitted = FALSE
    /\ previous = None

Next ==
    \/ RerunNoConfig
    \/ RerunImportFails
    \/ RerunNoText
    \/ RerunDecodeFails
    \/ Upload
    \/ ParseBlank
    \/ ParseHeader
    \/ ParseOrphan
    \/ ParseEntry
    \/ ParseEntryRaises
    \/ CallDisplay
    \/ SectionHeader
    \/ SectionDone
    \/ DisplayReturn
    \/ FetchPayload
    \/ FetchNothing
    \/ FetchRaises
    \/ VideoLink
    \/ VideoFormatRaises
    \/ MirrorsExhausted
    \/ TutorialImage
    \/ TutorialImageFails
    \/ TutorialVideo

\* The session: reruns of main, each running process_file to its end.
Spec == Init /\ [][Next]_vars

----------------------------------------------------------------------------
(* What the manifest says, read off the lines without running the parser.  *)

\* The first character of the line is '#'.
HeaderLine(l) == l # <<>> /\ l[1] = "#"

\* The line has nothing but spaces.
BlankLine(l) == \A i \in 1..Len(l) : l[i] = " "

\* The line is neither blank nor a header.
EntryLine(l) == ~BlankLine(l) /\ ~HeaderLine(l)

\* The section name a header line declares.
DeclaredName(l) == Strip(SubSeq(l, 2, Len(l)))

\* The nearest header line above line k, 0 when there is none.
Governing(k) ==
    LET hs == {j \in 1..(k - 1) : HeaderLine(lines[j])}
    IN  IF hs = {} THEN 0 ELSE CHOOSE j \in hs : \A h \in hs : h <= j

\* The lines processed so far by the for loop.
Processed == 1..(li - 1)

\* The processed entry lines with no header above them.
OrphanLines == {k \in Processed : EntryLine(lines[k]) /\ Governing(k) = 0}

\* The processed entry lines under a header that declares name.
GovernedBy(name) ==
    {k \in Processed : /\ EntryLine(lines[k])
                       /\ Governing(k) # 0
                       /\ DeclaredName(lines[Governing(k)]) = name}

\* A finite set of numbers in increasing order.
RECURSIVE Ascending(_)
Ascending(S) ==
    IF S = {} THEN <<>>
    ELSE LET m == CHOOSE x \in S : \A y \in S : x <= y
         IN  <<m>> \o Ascending(S \ {m})

\* The entries the processed lines give the section, in manifest order.
ExpectedEntries(name) ==
    LET ks == Ascending(GovernedBy(name))
    IN  [j \in 1..Len(ks) |-> EntryOf(lines[ks[j]])]

\* The number of entries in all sections.
RECURSIVE TotalEntries(_)
TotalEntries(d) ==
    IF d = <<>> THEN 0 ELSE Len(Head(d).entries) + TotalEntries(Tail(d))

\* The number of elements of the page of the kind.
CountKind(kind) == Cardinality({i \in 1..Len(page) : page[i].kind = kind})

----------------------------------------------------------------------------
(* C5 and C6: the parser on whole manifests (SpecParse).                   *)

\* C5: as long as the lines processed hold no header, the dict stays empty, no
\* section is active and the loop is still running; at any point the dict
\* holds exactly as many entries as there are processed entry lines below a
\* header, and one warning was written for each entry line above the first
\* header.  So such a line is in no section and the later lines are parsed as
\* if it were absent.
C5_OrphanLinesDropped ==
    /\ (\A k \in Processed : ~HeaderLine(lines[k]))
          => data = <<>> /\ current_section = None /\ pc = "parse"
    /\ TotalEntries(data) =
          Cardinality({k \in Processed : EntryLine(lines[k]) /\ Governing(k) # 0})
    /\ CountKind("warning") = Cardinality(OrphanLines)

\* C5 witness: the loop is over, a line above the first header was dropped
\* with a warning, and an entry line below the header is in the dict.
C5_Witness ==
    /\ pc = "parse"
    /\ li > Len(lines)
    /\ OrphanLines # {}
    /\ TotalEntries(data) > 0

\* C6: every section of the dict holds exactly the entries of the processed
\* entry lines under any header of its name, in manifest order, and no name has
\* two sections: a repeated header resumes the section.
C6_RedeclareResumes ==
    /\ \A i \in 1..Len(data) : data[i].entries = ExpectedEntries(data[i].name)
    /\ \A i, j \in 1..Len(data) : data[i].name = data[j].name => i = j

\* C6 witness: section a got an entry, section b was opened, the header of a
\* came again and a second entry followed; a holds both, in order.
C6_Witness ==
    /\ prog = "advanced"
    /\ lines = << <<"#", "a">>, <<"a">>, <<"#", "b">>, <<"#", "a">>, <<"b">> >>
    /\ li > Len(lines)
    /\ Entries(data, <<"a">>) = <<AdvancedEntry(<<"a">>), AdvancedEntry(<<"b">>)>>
    /\ Entries(data, <<"b">>) = <<>>

----------------------------------------------------------------------------
(* C7, C8 and C9: the per-line rules on every short line (SpecLine).       *)

\* The processed entry lines that have a header above them.
GovernedLines == {k \in Processed : EntryLine(lines[k]) /\ Governing(k) # 0}

\* The section the nearest header above line k declares.
SectionOfLine(k) == DeclaredName(lines[Governing(k)])

\* The section of that name holds the entry.
StoredIn(name, entry) ==
    \E i \in 1..Len(data) :
        /\ data[i].name = name
        /\ \E j \in 1..Len(data[i].entries) : data[i].entries[j] = entry

\* C7 (as claimed): every processed line whose first non-space character is
\* '#' started or resumed the section it names, so the dict has that section.
C7_HeaderIffFirstNonSpaceHash ==
    \A k \in Processed :
        StartsWith(LStrip(lines[k]), "#")
            => HasSection(data, DeclaredName(LStrip(lines[k])))

\* C7 (amended): a line is a header exactly when its first character is '#'.
\* The sections of the dict are exactly the names declared by the processed
\* lines that begin with '#'; every other non-blank processed line, a line
\* with spaces before its '#' included, is an entry of the section declared
\* above it, or is dropped with a warning when no header is above it.
C7_HeaderIffFirstCharHash ==
    /\ Keys(data) = {DeclaredName(lines[k]) : k \in {j \in Processed : HeaderLine(lines[j])}}
    /\ \A k \in GovernedLines : StoredIn(SectionOfLine(k), EntryOf(lines[k]))
    /\ TotalEntries(data) = Cardinality(GovernedLines)
    /\ CountKind("warning") = Cardinality(OrphanLines)

\* C7 witness: the line " #a" under the header "#b" was processed; it is an
\* entry of b and there is no section a.
C7_Witness ==
    /\ prog = "advanced"
    /\ lines = << <<"#", "b">>, <<" ", "#", "a">> >>
    /\ li = 3
    /\ Entries(data, <<"b">>) = << <<(<<"a">>), <<"#", "a">> >> >>
    /\ ~HasSection(data, <<"a">>)

\* The text after the first '#' of the line.
AfterFirstHash(l) ==
    LET k == CHOOSE i \in 1..Len(l) : l[i] = "#" /\ \A j \in 1..(i - 1) : l[j] # "#"
    IN  SubSeq(l, k + 1, Len(l))

\* The display name the rule gives: the trimmed text after the first '#',
\* or the trimmed line when it has no '#'.
NameAfterFirstHash(l) ==
    IF Contains(l, "#") THEN Strip(AfterFirstHash(l)) ELSE Strip(l)

\* C8 (as claimed): in image mode of advancedtutorial.py every processed entry
\* line is stored with the whole trimmed text after its first '#' as display
\* name (the trimmed line when it has no '#') and the trimmed line as raw value.
C8_NameIsTextAfterFirstHash ==
    (prog = "advanced" /\ is_image) =>
        \A k \in GovernedLines :
            StoredIn(SectionOfLine(k), <<NameAfterFirstHash(lines[k]), Strip(lines[k])>>)

\* The words of the line that do not end in '#', joined by single spaces.
StrippedPhrase(l) ==
    Join(SelectSeq(SplitWords(l), LAMBDA w : w[Len(w)] # "#"), " ")

\* C9 (as claimed): in video mode every processed entry line is stored with
\* the stripped phrase as the value that goes into the template, and with the
\* stripped phrase as display name when the phrase holds no '#'.
C9_VideoPhraseStripped ==
    ~is_image =>
        \A k \in GovernedLines :
            LET phrase == StrippedPhrase(lines[k])
            IN  IF prog = "tutorial"
                THEN StoredIn(SectionOfLine(k),
                         <<phrase, Format(selected_base_urls[1], ReplaceSpaces(phrase))>>)
                ELSE \E i \in 1..Len(data) : \E j \in 1..Len(data[i].entries) :
                         /\ data[i].entries[j][2] = phrase
                         /\ ~Contains(phrase, "#") => data[i].entries[j][1] = phrase

\* C9 (amended): tutorial.py, in either mode, stores every processed entry
\* line with the stripped phrase as display name and the template formatted
\* with that phrase, spaces as '+', as URL; advancedtutorial.py removes
\* nothing and stores the trimmed line as raw value.
C9_TutorialPhraseStripped ==
    \A k \in GovernedLines :
        LET phrase == StrippedPhrase(lines[k])
        IN  IF prog = "tutorial"
            THEN StoredIn(SectionOfLine(k),
                     <<phrase, Format(selected_base_urls[1], ReplaceSpaces(phrase))>>)
            ELSE \E i \in 1..Len(data) : \E j \in 1..Len(data[i].entries) :
                     data[i].entries[j][2] = Strip(lines[k])

\* C9 witness: tutorial.py in video mode processed the line "a b#" under a
\* header and stored the phrase "a" with the URL made from it.
C9_Witness ==
    /\ prog = "tutorial"
    /\ ~is_image
    /\ selected_base_urls = << <<"p", "{}">> >>
    /\ lines = << <<"#", "b">>, <<"a", " ", "b", "#">> >>
    /\ li = 3
    /\ Entries(data, <<"b">>) = << <<(<<"a">>), <<"p", "a">> >> >>

----------------------------------------------------------------------------
(* C1 to C4 and C10: the reruns of main (Spec).                            *)

\* The candidates of the dict: a section name and an enumerate index.
Candidates ==
    UNION {{<<data[n].name, i - 1>> : i \in 1..Len(data[n].entries)} : n \in 1..Len(data)}

\* The raw value of the candidate.
RawOf(c) == Entries(data, c[1])[c[2] + 1][2]

\* The fetches made for the candidate, in order.
CallsFor(c) == SelectSeq(calls, LAMBDA x : x.section = c[1] /\ x.idx = c[2])

\* The elements of the kind written for the candidate, in order.
Written(c, kind) ==
    SelectSeq(page, LAMBDA e : e.kind = kind /\ e.section = c[1] /\ e.idx = c[2])

\* The display loops are past the candidate.
Displayed(c) ==
    /\ pc \in {"section", "entry", "idle"}
    /\ \E p \in 1..Len(sorted_sections) :
          /\ sorted_sections[p] = c[1]
          /\ p < si \/ (p = si /\ pc = "entry" /\ c[2] < idx)

\* The number of fetches the program makes for a candidate before giving up.
Attempts == IF prog = "advanced" THEN Len(selected_base_urls) ELSE 1

\* Every fetch the program makes for the candidate was made and failed.
AllFailed(c) ==
    /\ Len(CallsFor(c)) = Attempts
    /\ Attempts > 0
    /\ \A k \in 1..Len(CallsFor(c)) : ~CallsFor(c)[k].ok

\* process_file ran to its end in this rerun.
RanToEnd == pc = "idle" /\ runs = 1 /\ li > Len(lines) /\ si > Len(sorted_sections)

\* C1 (as claimed): in a rerun whose upload has the fingerprint already stored
\* in the session state, process_file is not entered.
C1_UnchangedNotReprocessed == resubmitted => runs = 0

\* C2: in image mode of advancedtutorial.py the fetches made for a candidate
\* go through the selected templates in the order selected, one fetch per
\* position; every fetch but the last one made has failed; at most one image
\* is written for the candidate, exactly when the last fetch made gave an
\* image, and it is written with the template and the URL of that fetch.
C2_MirrorsInOrderFirstSuccessWins ==
    (prog = "advanced" /\ is_image) =>
        \A c \in Candidates :
            LET cs == CallsFor(c)
                im == Written(c, "image")
            IN  /\ Len(cs) <= Len(selected_base_urls)
                /\ \A k \in 1..Len(cs) :
                      cs[k].base = selected_base_urls[k] /\ cs[k].url = RawOf(c)
                /\ \A k \in 1..(Len(cs) - 1) : ~cs[k].ok
                /\ Len(im) <= 1
                /\ (Len(im) = 1) <=> (cs # <<>> /\ cs[Len(cs)].ok)
                /\ Len(im) = 1 =>
                      /\ im[1].base = cs[Len(cs)].base
                      /\ im[1].url = cs[Len(cs)].url
                /\ (Displayed(c) /\ Len(im) = 0) => Len(cs) = Len(selected_base_urls)

\* C2 witness: the rerun is over; for one candidate the first and second of
\* three templates failed, the third gave the image, and the image is written
\* with the third template.
C2_Witness ==
    /\ prog = "advanced"
    /\ is_image
    /\ RanToEnd
    /\ Len(selected_base_urls) = 3
    /\ \E c \in Candidates :
          /\ Len(CallsFor(c)) = 3
          /\ ~CallsFor(c)[1].ok
          /\ ~CallsFor(c)[2].ok
          /\ CallsFor(c)[3].ok
          /\ Len(Written(c, "image")) = 1
          /\ Written(c, "image")[1].base = selected_base_urls[3]

\* Nothing but the section header is on the page for the candidate.
NothingWritten(c) ==
    \A k \in {"image", "link", "label", "load_error"} : Written(c, k) = <<>>

\* C3 (as claimed): in image mode, a candidate whose every fetch failed has
\* no preview, no link and no error message on the page.
C3_FailureRendersNothing ==
    is_image => \A c \in Candidates : AllFailed(c) => NothingWritten(c)

\* C3 (amended): in image mode of advancedtutorial.py a candidate whose every
\* template failed has nothing on the page and the page shows no error at
\* all; tutorial.py, which makes one fetch per candidate, writes one st.error
\* for the failed candidate and neither preview nor link.
C3_AdvancedFailureRendersNothing ==
    is_image =>
        /\ \A c \in Candidates :
              AllFailed(c) =>
                  IF prog = "advanced" THEN NothingWritten(c)
                  ELSE /\ Len(Written(c, "load_error")) = 1
                       /\ Written(c, "image") = <<>>
                       /\ Written(c, "link") = <<>>
        /\ (prog = "advanced" /\ runs = 1) =>
              CountKind("load_error") = 0 /\ CountKind("import_error") = 0

\* C3 witness: advancedtutorial.py ran to its end in image mode with two
\* templates selected or more, and both failed for some candidate.
C3_Witness ==
    /\ prog = "advanced"
    /\ is_image
    /\ RanToEnd
    /\ Len(selected_base_urls) >= 2
    /\ \E c \in Candidates : AllFailed(c) /\ NothingWritten(c)

\* The rerun has a template that tutorial.py can format while it parses.
Formattable == prog = "tutorial" => ~FormatRaises(selected_base_urls[1])

\* C4: a rerun that entered process_file ends only after the loop over the
\* lines and the loop over the sections are over; every processed entry line
\* under a header is in its section, whatever lines with no header were
\* dropped before or after it; and once the rerun is over every candidate was
\* gone through: in image mode it was fetched, and it has its image if a
\* fetch gave one; in video mode it has its link.
C4_MaximalPartialSuccess ==
    (runs = 1 /\ Formattable) =>
        /\ pc = "idle" => RanToEnd
        /\ \A k \in GovernedLines : StoredIn(SectionOfLine(k), EntryOf(lines[k]))
        /\ pc = "idle" =>
              \A c \in Candidates :
                  /\ Displayed(c)
                  /\ (is_image /\ Attempts > 0) => CallsFor(c) # <<>>
                  /\ (is_image /\ \E k \in 1..Len(CallsFor(c)) : CallsFor(c)[k].ok)
                        => Len(Written(c, "image")) = 1
                  /\ (~is_image /\ prog = "tutorial") => Len(Written(c, "link")) = 1
                  /\ (~is_image /\ prog = "advanced"
                        /\ \E m \in 1..Len(selected_base_urls) :
                              ~FormatRaises(selected_base_urls[m]))
                        => Len(Written(c, "link")) = 1

\* C4 witness: the rerun is over; a line with no header was dropped with a
\* warning, the first candidate of a section failed on every template, and
\* the candidate after it has its image.
C4_Witness ==
    /\ prog = "advanced"
    /\ is_image
    /\ RanToEnd
    /\ CountKind("warning") > 0
    /\ \E c \in Candidates :
          /\ AllFailed(c)
          /\ \E d \in Candidates :
                /\ \/ d[1] = c[1] /\ d[2] > c[2]
                   \/ StrLess(c[1], d[1])
                /\ Len(Written(d, "image")) = 1

\* C10: in video mode of advancedtutorial.py no fetch is made, and when the
\* first selected template has its one replacement field, every candidate the
\* loops are past has exactly one link, made from the first template and the
\* raw value with '+' for each space; no candidate ever has two links.
C10_VideoFirstMirrorOnly ==
    (prog = "advanced" /\ ~is_image /\ runs = 1) =>
        /\ calls = <<>>
        /\ \A c \in Candidates :
              /\ Len(Written(c, "link")) <= 1
              /\ (Displayed(c) /\ selected_base_urls # <<>>
                    /\ ~FormatRaises(selected_base_urls[1])) =>
                    /\ Len(Written(c, "link")) = 1
                    /\ Written(c, "link")[1].base = selected_base_urls[1]
                    /\ Written(c, "link")[1].url =
                          Format(selected_base_urls[1],
                                 [j \in 1..Len(RawOf(c)) |->
                                     IF RawOf(c)[j] = " " THEN "+" ELSE RawOf(c)[j]])

\* C10 witness: the rerun is over in video mode with three templates
\* selected; a candidate whose raw value has a space has its one link, made
\* from the first template.
C10_Witness ==
    /\ prog = "advanced"
    /\ ~is_image
    /\ RanToEnd
    /\ Len(selected_base_urls) = 3
    /\ ~FormatRaises(selected_base_urls[1])
    /\ \E c \in Candidates :
          /\ Contains(RawOf(c), " ")
          /\ Len(Written(c, "link")) = 1
          /\ Written(c, "link")[1].base = selected_base_urls[1]

----------------------------------------------------------------------------
(* C11: the order of the page (Spec).                                      *)

\* The elements of the page that belong to a section: its header and what
\* was written for its candidates.
Rendered == SelectSeq(page, LAMBDA e : e.kind \notin {"warning", "import_error"})

\* Element e comes before element f in alphabetical section order, the header
\* of a section first and its candidates by their index.
InDisplayOrder(e, f) ==
    \/ StrLess(e.section, f.section)
    \/ /\ e.section = f.section
       /\ \/ e.kind = "header" /\ f.kind # "header"
          \/ e.kind # "header" /\ f.kind # "header" /\ e.idx <= f.idx

\* C11: what a rerun writes for the sections is in alphabetical order of
\* section name, each header before the candidates of its section and these
\* by index, whatever fetches failed, and so are the fetches; the candidate
\* of index i of a section is the i-th entry line of the manifest under a
\* header of that name; once the rerun is over every section of the manifest
\* has its header.
C11_AlphabeticalThenEncounterOrder ==
    (runs = 1 /\ pc # "parse") =>
        /\ \A a, b \in 1..Len(Rendered) :
              a < b => InDisplayOrder(Rendered[a], Rendered[b])
        /\ \A a, b \in 1..Len(calls) :
              a < b => \/ StrLess(calls[a].section, calls[b].section)
                       \/ calls[a].section = calls[b].section /\ calls[a].idx <= calls[b].idx
        /\ RanToEnd =>
              /\ \A n \in 1..Len(data) : data[n].entries = ExpectedEntries(data[n].name)
              /\ {Rendered[a].section : a \in {x \in 1..Len(Rendered) : Rendered[x].kind = "header"}}
                    = {DeclaredName(lines[k]) : k \in {j \in 1..Len(lines) : HeaderLine(lines[j])}}
        /\ \A a \in 1..Len(calls) :
              calls[a].url = Entries(data, calls[a].section)[calls[a].idx + 1][2]

\* C11 witness: the manifest declares section b, then a, then b again; the
\* rerun is over, the header of a is before the header of b, the first entry
\* of b has no image, and the entry of b added after the section was resumed
\* has its image after it.
C11_Witness ==
    /\ prog = "advanced"
    /\ is_image
    /\ RanToEnd
    /\ Len(data) = 2
    /\ data[1].name = <<"b">>
    /\ data[2].name = <<"a">>
    /\ Len(data[1].entries) = 2
    /\ Rendered[1].kind = "header"
    /\ Rendered[1].section = <<"a">>
    /\ AllFailed(<<(<<"b">>), 0>>)
    /\ Len(Written(<<(<<"b">>), 1>>, "image")) = 1

----------------------------------------------------------------------------
(* C12 and C13: the except clause of main (Spec).                          *)

\* C12 (as claimed): a configuration unit with both mappings and no
\* fetch_image_with_fallback does not make the rerun fail: no error is
\* written, and an uploaded manifest is processed.
C12_NoFetchFunctionDegrades ==
    config = "no_fetch" =>
        /\ CountKind("import_error") = 0
        /\ file_content # None => runs = 1

\* C13 (as claimed): a rerun in which the import of the configuration unit
\* raises writes the error once and nothing else, enters no parse and makes no
\* fetch; and the error is on the page only if the import raised.
C13_ImportErrorIffImportFails ==
    /\ ImportRaises(prog, config) =>
          /\ page = <<ImportError>>
          /\ runs = 0
          /\ calls = <<>>
          /\ pc = "idle"
    /\ CountKind("import_error") > 0 => ImportRaises(prog, config)

----------------------------------------------------------------------------
(* C14: the URL of a candidate (Spec).                                     *)

\* The raw value with "+" for every space.
Plus(raw) == [j \in 1..Len(raw) |-> IF raw[j] = " " THEN "+" ELSE raw[j]]

\* The elements that show a URL.
UrlKinds == {"image", "link", "load_error"}

\* The raw value of the candidate: tutorial.py keeps it as the caption of the
\* tuple, advancedtutorial.py as its second component.
RawValue(c) ==
    Entries(data, c[1])[c[2] + 1][IF prog = "tutorial" THEN 1 ELSE 2]

\* The template a fetch or an element was made with.
TemplateOf(x) == IF prog = "tutorial" THEN selected_base_urls[1] ELSE x.base

\* C14 (as claimed): in both modes every URL the program fetches or shows for
\* a candidate is the template with its placeholder replaced by the raw value
\* of the entry, "+" for every space.
C14_UrlIsTemplateWithPlus ==
    runs = 1 =>
        /\ \A k \in 1..Len(calls) :
              calls[k].url = Format(TemplateOf(calls[k]),
                                    Plus(RawValue(<<calls[k].section, calls[k].idx>>)))
        /\ \A k \in 1..Len(page) :
              page[k].kind \in UrlKinds =>
                  page[k].url = Format(TemplateOf(page[k]),
                                       Plus(RawValue(<<page[k].section, page[k].idx>>)))

\* C14: tutorial.py stores with every entry, and fetches and shows in both
\* modes, the selected template with its placeholder replaced by the cleaned
\* line, "+" for every space; video mode of advancedtutorial.py shows the
\* template of the link formatted the same way; image mode of
\* advancedtutorial.py builds no URL: it hands the raw value, spaces kept,
\* and the template to fetch_image_with_fallback.
C14_UrlBuiltExceptAdvancedImages ==
    runs = 1 =>
        /\ prog = "tutorial" =>
              /\ \A n \in 1..Len(data) : \A i \in 1..Len(data[n].entries) :
                    data[n].entries[i][2] =
                        Format(selected_base_urls[1], Plus(data[n].entries[i][1]))
              /\ \A k \in 1..Len(calls) :
                    calls[k].url = Format(selected_base_urls[1],
                                          Plus(RawValue(<<calls[k].section, calls[k].idx>>)))
              /\ \A k \in 1..Len(page) :
                    page[k].kind \in UrlKinds =>
                        page[k].url = Format(selected_base_urls[1],
                                             Plus(RawValue(<<page[k].section, page[k].idx>>)))
        /\ (prog = "advanced" /\ ~is_image) =>
              \A k \in 1..Len(page) :
                  page[k].kind \in UrlKinds =>
                      /\ \E b \in 1..Len(selected_base_urls) :
                            page[k].base = selected_base_urls[b]
                      /\ page[k].url = Format(page[k].base,
                                              Plus(RawValue(<<page[k].section, page[k].idx>>)))
        /\ (prog = "advanced" /\ is_image) =>
              \A k \in 1..Len(calls) :
                  /\ calls[k].url = RawValue(<<calls[k].section, calls[k].idx>>)
                  /\ \E b \in 1..Len(selected_base_urls) :
                        calls[k].base = selected_base_urls[b]

\* C14 witness: tutorial.py in image mode with template "p{}" has shown the
\* image of the entry "b a" from the URL "pb+a".
C14_Witness ==
    /\ prog = "tutorial"
    /\ is_image
    /\ RanToEnd
    /\ selected_base_urls = << <<"p", "{}">> >>
    /\ \E c \in Candidates :
          /\ RawValue(c) = <<"b", " ", "a">>
          /\ Len(Written(c, "image")) = 1
          /\ Written(c, "image")[1].url = <<"p", "b", "+", "a">>

----------------------------------------------------------------------------
(* C15: what a parse depends on (Spec).                                    *)

\* The processed header lines that are the first to declare their name.
FirstHeaders ==
    {k \in Processed : /\ HeaderLine(lines[k])
                       /\ \A j \in 1..(k - 1) :
                             HeaderLine(lines[j]) =>
                                 DeclaredName(lines[j]) # DeclaredName(lines[k])}

\* The dict the processed lines of the text give under the mode and the
\* templates of this rerun, whatever was parsed before.
ParseOf ==
    LET hs == Ascending(FirstHeaders)
    IN  [n \in 1..Len(hs) |->
            [name |-> DeclaredName(lines[hs[n]]),
             entries |-> ExpectedEntries(DeclaredName(lines[hs[n]]))]]

\* The section names of a text.
NamesOf(text) ==
    {DeclaredName(SplitLines(text)[k]) :
        k \in {j \in 1..Len(SplitLines(text)) : HeaderLine(SplitLines(text)[j])}}

\* C15: in every rerun that enters process_file, at every step of the parse
\* and after it, the lines are those of the text stored for this rerun and the
\* dict is the one the lines processed so far give, section by section in
\* order of first declaration and entry by entry in line order: nothing of
\* the text parsed in an earlier rerun, be it the same text or another, is
\* in it.
C15_ParseDependsOnTextOnly ==
    runs = 1 =>
        /\ lines = SplitLines(session_state["file_content"])
        /\ data = ParseOf

\* C15 witness: the rerun before parsed a text with section a; this rerun has
\* parsed to its end a text of section b alone, and the dict holds section b
\* with its two entries and no section a.
C15_Witness ==
    /\ RanToEnd
    /\ previous # None
    /\ previous # file_content
    /\ <<"a">> \in NamesOf(previous)
    /\ NamesOf(file_content) = {<<"b">>}
    /\ Keys(data) = {<<"b">>}
    /\ Len(Entries(data, <<"b">>)) = 2

\* C15 witness of the same text uploaded twice in a row: the second parse has
\* run to its end and the section holds its two entries once.
C15_WitnessTwice ==
    /\ RanToEnd
    /\ resubmitted
    /\ previous = file_content
    /\ Keys(data) = {<<"b">>}
    /\ Len(Entries(data, <<"b">>)) = 2

----------------------------------------------------------------------------
(* C16: no memory of mirrors across candidates (Spec).                     *)

\* Calls k - 1 and k are for the same candidate.
SameCandidate(k) ==
    /\ k > 1
    /\ calls[k - 1].section = calls[k].section
    /\ calls[k - 1].idx = calls[k].idx

\* C16: in image mode of advancedtutorial.py the first fetch made for a
\* candidate uses the first template selected, whatever the fetches for the
\* candidates before it gave, and every further fetch for it follows a failed
\* one and uses the template next in the list; the loop stands at the first
\* template whenever it reaches a candidate; and every candidate the display
\* is past had its fetch with the first template.
C16_EveryCandidateStartsAtFirstMirror ==
    (prog = "advanced" /\ is_image /\ runs = 1) =>
        /\ \A k \in 1..Len(calls) :
              IF SameCandidate(k)
              THEN /\ ~calls[k - 1].ok
                   /\ \E b \in 2..Len(selected_base_urls) :
                         /\ calls[k - 1].base = selected_base_urls[b - 1]
                         /\ calls[k].base = selected_base_urls[b]
              ELSE calls[k].base = selected_base_urls[1]
        /\ (AtEntry /\ CallsFor(<<Section, idx>>) = <<>>) => bi = 1
        /\ \A c \in Candidates :
              (Displayed(c) /\ selected_base_urls # <<>>) =>
                  /\ CallsFor(c) # <<>>
                  /\ CallsFor(c)[1].base = selected_base_urls[1]

\* C16 witness: the rerun is over; for one candidate the first template
\* failed and the second gave the image; for the candidate after it in the
\* same section the first template was fetched again and gave the image.
C16_Witness ==
    /\ prog = "advanced"
    /\ is_image
    /\ RanToEnd
    /\ Len(selected_base_urls) >= 2
    /\ \E c \in Candidates :
          /\ <<c[1], c[2] + 1>> \in Candidates
          /\ Len(CallsFor(c)) = 2
          /\ ~CallsFor(c)[1].ok
          /\ CallsFor(c)[2].ok
          /\ Len(CallsFor(<<c[1], c[2] + 1>>)) = 1
          /\ CallsFor(<<c[1], c[2] + 1>>)[1].base = selected_base_urls[1]
          /\ CallsFor(<<c[1], c[2] + 1>>)[1].ok

----------------------------------------------------------------------------
(* C17: the session state (Spec).                                          *)

\* C17: whenever st.session_state holds last_file_hash it holds file_content,
\* and last_file_hash is the hash of file_content; from the rerun in which a
\* text is uploaded on, file_content is that text whole, whatever text was
\* stored before, and the lines parsed are its lines.
C17_StoredHashIsOfStoredContent ==
    /\ "last_file_hash" \in DOMAIN session_state =>
          /\ "file_content" \in DOMAIN session_state
          /\ session_state["last_file_hash"]
                = compute_file_hash(session_state["file_content"])
    /\ "file_content" \in DOMAIN session_state =>
          "last_file_hash" \in DOMAIN session_state
    /\ file_content # None =>
          /\ "file_content" \in DOMAIN session_state
          /\ session_state["file_content"] = file_content
          /\ runs = 1
          /\ lines = SplitLines(file_content)

\* C17 witness: a text with a section was stored; another text, not empty,
\* is uploaded, and the session state holds the new text and its hash.
C17_Witness ==
    /\ previous # None
    /\ previous # <<>>
    /\ file_content # None
    /\ file_content # <<>>
    /\ previous # file_content
    /\ session_state["file_content"] = file_content
    /\ session_state["last_file_hash"] = compute_file_hash(file_content)

----------------------------------------------------------------------------
(* C18: the active section (SpecLine).                                     *)

\* C18: at every step of process_file current_section is None or a key of
\* the dict; it is None exactly as long as no header line was processed, and
\* otherwise the name the last header processed declares, the empty name of
\* the header "#" included; every processed entry line under a header is
\* stored in the section of that header, also in the section of the empty
\* name, and the warnings written are those of the entry lines with no header
\* above them.
C18_ActiveSectionIsKey ==
    LET hs == {k \in Processed : HeaderLine(lines[k])}
    IN  /\ current_section = None \/ HasSection(data, current_section)
        /\ (current_section = None) <=> (hs = {})
        /\ hs # {} =>
              current_section
                  = DeclaredName(lines[CHOOSE k \in hs : \A h \in hs : h <= k])
        /\ \A k \in GovernedLines : StoredIn(SectionOfLine(k), EntryOf(lines[k]))
        /\ CountKind("warning") = Cardinality(OrphanLines)

\* C18 witness: the text is the header "#" and the entry line "a"; both are
\* processed, the active section is the empty name, it is a key of the dict
\* and holds the entry, and no warning was written.
C18_Witness ==
    /\ prog = "advanced"
    /\ lines = << <<"#">>, <<"a">> >>
    /\ li = 3
    /\ current_section = <<>>
    /\ HasSection(data, <<>>)
    /\ Entries(data, <<>>) = <<EntryOf(<<"a">>)>>
    /\ CountKind("warning") = 0

====
